---- MODULE Spec2Model ----
(***************************************************************************)
(* A model of google_analytics/aggregation.py: the chunked flatten stage   *)
(* (reduce_df), category reduction (reduce_categories), one-hot encoding   *)
(* (one_hot_encode_categoricals), the wide pivot (aggregate) and the       *)
(* train/test split (split_data).                                          *)
(*                                                                         *)
(* Tables are sequences of rows.  NaN is the missing value of pandas.      *)
(***************************************************************************)
EXTENDS Integers, Sequences, FiniteSets, TLC

VARIABLES
    file,        \* reduce_df: the CSV at `path`
    args,        \* reduce_df: nrows and chunksize of the running call
    rdpc,        \* reduce_df: where the call is
    error,       \* reduce_df: the expression that raised, "" when none did
    i,           \* reduce_df: the chunk counter
    tempExists,  \* whether ../data/temp exists
    tempFiles,   \* the files of ../data/temp: chunk number -> lines
    output,      \* the lines the running call wrote to its output file
    last,        \* the output of the call before, when it completed and had
                 \* the same path, nrows and chunksize as the running one
    df,          \* the DataFrame a table function works on
    params,      \* the other arguments of the table function
    pc,          \* where the table function is
    turn,        \* the table function's loop counter
    result       \* what the table function returned

rdVars == <<file, args, rdpc, error, i, tempExists, tempFiles, output, last>>
dfVars == <<df, params, pc, turn, result>>
vars == <<rdVars, dfVars>>

\* A cell of a DataFrame is <<v>> for the value v and <<>> for NaN (or NaT).
NaN == <<>>
V(x) == <<x>>
IsNaN(c) == c = NaN

\* ------------------------------------------------------------------ bounds
MaxRows == 3
MaxChunkSize == 2

\* ------------------------------------------------------------ small helpers
Range(s) == {s[k] : k \in DOMAIN s}

Contains(s, x) == \E k \in DOMAIN s : s[k] = x

RECURSIVE SelectSeqBy(_, _)
\* the elements of sequence s that belong to the set S, in the order of s
SelectSeqBy(s, S) ==
    IF s = <<>> THEN <<>>
    ELSE IF Head(s) \in S THEN <<Head(s)>> \o SelectSeqBy(Tail(s), S)
         ELSE SelectSeqBy(Tail(s), S)

\* every ordering of the finite set S
Orders(S) ==
    {s \in [1..Cardinality(S) -> S] :
        \A a, b \in 1..Cardinality(S) : a # b => s[a] # s[b]}

\* ================================================================ reduce_df
\* the ten columns reduce_df keeps, in the order it writes them
cols ==
    <<"date", "fullVisitorId", "operatingSystem", "country", "browser",
      "pageviews", "transactions", "visits", "transactionRevenue",
      "visitStartTime">>

\* The keys a row's JSON cells may lack.  A row of kind "full" has every key,
\* "noSale" lacks transactionRevenue and transactions in its totals, "bad"
\* holds text that json.loads rejects.
RowKinds == {"full", "noSale", "bad"}

AbsentKeys(kind) ==
    IF kind = "noSale" THEN {"transactionRevenue", "transactions"} ELSE {}

\* the CSV files: whether the header has a date column, and the rows
Files ==
    [hasDate : BOOLEAN,
     rows : UNION {[1..n -> RowKinds] : n \in 1..MaxRows}]

\* nrows = 0 stands for nrows=None
Args == [nrows : 0..MaxRows, chunksize : 1..MaxChunkSize]

\* the number of rows pd.read_csv yields in all: the file's, capped by nrows
NRead(f, a) ==
    IF a.nrows = 0 \/ a.nrows > Len(f.rows) THEN Len(f.rows) ELSE a.nrows

\* the file rows (by number) of chunk k (0-based) of the iterator
ChunkRows(f, a, k) ==
    {r \in 1..NRead(f, a) :
        r > k * a.chunksize /\ r <= (k + 1) * a.chunksize}

\* json.loads as a converter: reading the chunk raises on malformed text
ChunkParses(f, rs) == \A r \in rs : f.rows[r] # "bad"

\* The chunk's columns after reset_index and the four json_normalize merges:
\* the plain CSV columns, then every key some row of the chunk holds.
Flatten(f, rs) ==
    LET absent == {c \in Range(cols) :
                     \/ c = "date" /\ ~f.hasDate
                     \/ \A r \in rs : c \in AbsentKeys(f.rows[r])}
        order == <<"index", "date", "fullVisitorId", "visitStartTime",
                   "browser", "operatingSystem", "country", "pageviews",
                   "transactions", "visits", "transactionRevenue">>
    IN  SelectSeqBy(order, Range(order) \ absent)

\* line 40: chunk['date'] raises KeyError when the chunk has no date column
DateParses(columns) == Contains(columns, "date")

\* the columns named by the KeyError of chunk[cols]
MissingCols(columns) == SelectSeqBy(cols, Range(cols) \ Range(columns))

\* the handler names no column (the message of the KeyError has another form)
FillMissingNone(columns) == columns

\* lines 47-53: each missing column is appended, filled with zeroes
FillMissing(columns) == columns \o MissingCols(columns)

\* chunk[cols] raises KeyError unless every one of the ten columns is there
HasCols(columns) == Range(cols) \subseteq Range(columns)

\* chunk[cols] (lines 46 and 54): the ten columns in the order of cols
KeepCols(columns) == SelectSeqBy(cols, Range(columns))

\* the cell of file row r under column c of a chunk whose flattened columns
\* are `flat`: "0" in a zero-filled column, empty where the row lacks the key
Cell(f, r, c, flat) ==
    IF ~Contains(flat, c) THEN "0"
    ELSE IF c \in AbsentKeys(f.rows[r]) THEN ""
    ELSE "v"

\* chunk.to_csv: the header line (row 0), then one line per row of the chunk
ChunkFile(f, a, k) ==
    LET rs == ChunkRows(f, a, k)
        flat == Flatten(f, rs)
        kept == KeepCols(FillMissing(flat))
        first == k * a.chunksize
    IN  <<[row |-> 0, cells |-> kept]>> \o
        [n \in 1..Cardinality(rs) |->
            [row |-> first + n,
             cells |-> [c \in 1..Len(kept) |-> Cell(f, first + n, kept[c], flat)]]]

RECURSIVE Concatenate(_, _, _)
\* lines 62-69: the files in the order `files`, the header of all but the
\* first thrown away
Concatenate(files, tf, n) ==
    IF n > Len(files) THEN <<>>
    ELSE (IF n = 1 THEN tf[files[n]] ELSE Tail(tf[files[n]]))
         \o Concatenate(files, tf, n + 1)

NoOutput == <<>>

\* no table function is running
DfIdle ==
    /\ df = <<>>
    /\ params = <<>>
    /\ pc = ""
    /\ turn = 0
    /\ result = <<>>

Init ==
    /\ DfIdle
    /\ file \in Files
    /\ args = [nrows |-> 0, chunksize |-> 1]
    /\ rdpc = "idle"
    /\ error = ""
    /\ i = 0
    /\ tempExists = FALSE
    /\ tempFiles = <<>>
    /\ output = NoOutput
    /\ last = NoOutput

\* lines 13-25: the call starts and makes the temp directory if it is not there
ReduceDfStart ==
    /\ rdpc \in {"idle", "done", "raised"}
    /\ \E a \in Args :
          /\ args' = a
          /\ last' = IF rdpc = "done" /\ a = args THEN output ELSE NoOutput
    /\ rdpc' = "loop"
    /\ error' = ""
    /\ i' = 0
    /\ tempExists' = TRUE
    /\ output' = NoOutput
    /\ UNCHANGED <<file, tempFiles, dfVars>>

\* lines 26-58: one turn of the loop over the chunks
ReduceDfChunk ==
    /\ rdpc = "loop"
    /\ ChunkRows(file, args, i) # {}
    /\ LET rs == ChunkRows(file, args, i) IN
        \/ /\ ~ChunkParses(file, rs)
           /\ rdpc' = "raised"
           /\ error' = "json.loads"
           /\ UNCHANGED <<i, tempFiles>>
        \/ /\ ChunkParses(file, rs)
           /\ ~DateParses(Flatten(file, rs))
           /\ rdpc' = "raised"
           /\ error' = "chunk['date']"
           /\ UNCHANGED <<i, tempFiles>>
        \/ /\ ChunkParses(file, rs)
           /\ DateParses(Flatten(file, rs))
           /\ IF HasCols(FillMissing(Flatten(file, rs)))
              THEN /\ tempFiles' = [k \in DOMAIN tempFiles \cup {i} |->
                                      IF k = i THEN ChunkFile(file, args, i)
                                      ELSE tempFiles[k]]
                   /\ i' = i + 1
                   /\ UNCHANGED <<rdpc, error>>
              ELSE /\ rdpc' = "raised"
                   /\ error' = "chunk[cols]"
                   /\ UNCHANGED <<i, tempFiles>>
    /\ UNCHANGED <<file, args, tempExists, output, last, dfVars>>

\* lines 60-72: glob lists the temp files in an order of the file system's
\* choosing; they are copied to the output and the directory is removed
ReduceDfConcat ==
    /\ rdpc = "loop"
    /\ ChunkRows(file, args, i) = {}
    /\ \E files \in Orders(DOMAIN tempFiles) :
          output' = Concatenate(files, tempFiles, 1)
    /\ tempFiles' = <<>>
    /\ tempExists' = FALSE
    /\ rdpc' = "done"
    /\ UNCHANGED <<file, args, error, i, last, dfVars>>

\* line 62: open(output, 'wb') raises (the output path cannot be written)
ReduceDfOpenFails ==
    /\ rdpc = "loop"
    /\ ChunkRows(file, args, i) = {}
    /\ rdpc' = "raised"
    /\ error' = "open(output)"
    /\ UNCHANGED <<file, args, i, tempExists, tempFiles, output, last, dfVars>>

Next ==
    \/ ReduceDfStart
    \/ ReduceDfChunk
    \/ ReduceDfConcat
    \/ ReduceDfOpenFails

Spec == Init /\ [][Next]_vars

\* ------------------------------------------------------ claims on reduce_df
\* the lines of the output that are data rows
IsHeader(line) == line.row = 0

\* the chunk (0-based) of the running call that file row r belongs to
ChunkOf(r) == (r - 1) \div args.chunksize

\* the files the running call has written so far
Written == IF rdpc = "loop" THEN {k \in DOMAIN tempFiles : k < i} ELSE {}

\* C4: the temp directory exists before any chunk file is written, and it
\* does not exist once reduce_df has ended, normally or by an exception.
C4_TempDirRemovedOnEveryPath ==
    /\ (tempFiles # <<>> => tempExists)
    /\ (rdpc \in {"done", "raised"} => ~tempExists)

\* C5: the output of a completed call has exactly one header line, the
\* first, and the data rows of chunk k all come before those of chunk k + 1.
C5_ChunkOrderReplayed ==
    rdpc = "done" =>
        /\ Len(output) >= 1 /\ IsHeader(output[1])
        /\ \A n \in 2..Len(output) : ~IsHeader(output[n])
        /\ \A m, n \in 2..Len(output) :
              m < n => ChunkOf(output[m].row) <= ChunkOf(output[n].row)

\* C6: a call that completes right after a completed call on the same file
\* with the same nrows and chunksize writes the same output, byte for byte.
C6_SecondRunIdentical ==
    (rdpc = "done" /\ last # NoOutput) => output = last

\* C7 as stated: no target column absent from a chunk makes reduce_df raise
\* (the absent ones are filled with zero and the loop goes on).
C7_NoAbsentColumnRaises ==
    ~(rdpc = "raised" /\ error \in {"chunk['date']", "chunk[cols]"})

\* C7 amended: in a file with a date column, a chunk lacking target columns
\* raises nothing; each chunk file the call wrote has the ten columns in the
\* order of cols and "0" in exactly the columns the chunk lacked, and the
\* only exceptions are malformed JSON and an output that cannot be opened.
C7_AbsentColumnsZeroFilled ==
    /\ file.hasDate => error \in {"", "json.loads", "open(output)"}
    /\ error = "json.loads" => ~ChunkParses(file, ChunkRows(file, args, i))
    /\ \A k \in Written :
          LET flat == Flatten(file, ChunkRows(file, args, k)) IN
          /\ tempFiles[k][1].cells = cols
          /\ \A n \in 2..Len(tempFiles[k]) : \A c \in 1..Len(cols) :
                /\ Len(tempFiles[k][n].cells) = Len(cols)
                /\ (tempFiles[k][n].cells[c] = "0") <=> ~Contains(flat, cols[c])

\* a chunk that lacked target columns was written and the loop went on to
\* write the chunk after it
C7_Witness ==
    /\ rdpc = "loop" /\ i >= 2 /\ Written = {0, 1}
    /\ ~HasCols(Flatten(file, ChunkRows(file, args, 0)))
    /\ \E n \in 2..Len(tempFiles[0]) : tempFiles[0][n].cells[9] = "0"

\* C12: the output of a call that completes holds the data rows this call
\* read, each once, and no other data row, whatever calls ran before it
\* (aborted ones included).
C12_OnlyThisRunsRows ==
    rdpc = "done" =>
        /\ \A n \in 1..Len(output) :
              ~IsHeader(output[n]) => output[n].row \in 1..NRead(file, args)
        /\ \A r \in 1..NRead(file, args) :
              Cardinality({n \in 1..Len(output) : output[n].row = r}) = 1


\* =============================================================== DataFrames
\* A DataFrame is [columns, index, rows]: the column names in order, the
\* index label of each row, and each row as a function from column name to
\* cell.
Table(columns, index, rows) ==
    [columns |-> columns, index |-> index, rows |-> rows]

NRows(t) == Len(t.rows)

\* RangeIndex(n): the labels 0 .. n-1
RangeIndex(m) == [k \in 1..m |-> k - 1]

\* t[c].unique(): the distinct cells of column c, NaN among them
Unique(t, c) == {t.rows[k][c] : k \in 1..NRows(t)}

\* the distinct values of column c that are not NaN
Categories(t, c) == {cell[1] : cell \in Unique(t, c) \ {NaN}}

\* a number cell as sum() reads it: NaN is skipped
Num(cell) == IF IsNaN(cell) THEN 0 ELSE cell[1]

Min(a, b) == IF a <= b THEN a ELSE b

\* the rest position of reduce_df, for the specifications of the table
\* functions
RdIdle ==
    /\ file = [hasDate |-> TRUE, rows |-> <<"full">>]
    /\ args = [nrows |-> 0, chunksize |-> 1]
    /\ rdpc = "idle"
    /\ error = ""
    /\ i = 0
    /\ tempExists = FALSE
    /\ tempFiles = <<>>
    /\ output = NoOutput
    /\ last = NoOutput

\* ======================================================== reduce_categories
MaxDfRows == 4
MaxCat == 2

target_name == "transactionRevenue"
OtherCategory == "other category"

RECURSIVE GroupSum(_, _, _, _)
\* t.groupby(c)[target_name].sum() at category v, over the rows from k on
GroupSum(t, c, v, k) ==
    IF k > NRows(t) THEN 0
    ELSE (IF t.rows[k][c] = V(v) THEN Num(t.rows[k][target_name]) ELSE 0)
         + GroupSum(t, c, v, k + 1)

\* lines 221-222: the categories of column c sorted by summed target,
\* descending; sort_values leaves the order of equal sums open
SortedBySum(t, c) ==
    {o \in Orders(Categories(t, c)) :
        \A a, b \in DOMAIN o :
            a < b => GroupSum(t, c, o[a], 1) >= GroupSum(t, c, o[b], 1)}

RECURSIVE CumSum(_, _, _, _)
\* np.cumsum(top[target_name]) at position j of the order o
CumSum(t, c, o, j) ==
    IF j = 0 THEN 0 ELSE GroupSum(t, c, o[j], 1) + CumSum(t, c, o, j - 1)

\* line 223-224: the positions of top whose 'per' is <= selec_top_per (given
\* in percent); with a total of zero 'per' is NaN, which is <= nothing
WithinPer(t, c, o, pct) ==
    LET total == CumSum(t, c, o, Len(o))
    IN  {j \in DOMAIN o : total # 0 /\ CumSum(t, c, o, j) * 100 <= pct * total}

\* line 227: top.loc[0:min(max_cat, len(top[col])), col]; a .loc slice takes
\* both its end labels, so this is the labels 0 .. min(max_cat, len(top))
Fallback(o, max_cat) ==
    {j \in DOMAIN o : j - 1 <= Min(max_cat, Len(o))}

\* lines 224-227: top_names
TopNames(t, c, o, pct, max_cat) ==
    LET within == WithinPer(t, c, o, pct)
    IN  IF Cardinality(within) < max_cat
        THEN {o[j] : j \in Fallback(o, max_cat)}
        ELSE {o[j] : j \in within}

\* lines 220-228: one turn of the loop, on column c, with top in the order o
ReduceColumn(t, c, o, pct, max_cat) ==
    IF Cardinality(Unique(t, c)) > max_cat
    THEN LET top_names == TopNames(t, c, o, pct, max_cat)
         IN  [t EXCEPT !.rows =
                [k \in DOMAIN @ |->
                    IF ~IsNaN(@[k][c]) /\ @[k][c][1] \in top_names
                    THEN @[k]
                    ELSE [@[k] EXCEPT ![c] = V(OtherCategory)]]]
    ELSE t

\* the inputs: tables of country, browser and transactionRevenue; every row
\* has the same browser; the rows are in a fixed order (the function reads
\* the table through unique, groupby and isin, which do not depend on it)
CountryNames == <<"A", "B", "C", "D">>
Revenues == <<0, 5, 80, 100>>

ReduceRow(pair) ==
    [country |-> V(CountryNames[pair[1]]),
     browser |-> V("X"),
     transactionRevenue |-> V(Revenues[pair[2]])]

PairLeq(p, q) == p[1] < q[1] \/ (p[1] = q[1] /\ p[2] <= q[2])

ReduceInputs ==
    {Table(<<"country", "browser", "transactionRevenue">>,
           RangeIndex(Len(f)), [k \in DOMAIN f |-> ReduceRow(f[k])]) :
        f \in UNION {{g \in [1..m -> (DOMAIN CountryNames) \X (DOMAIN Revenues)] :
                        \A k \in 1..(m - 1) : PairLeq(g[k], g[k + 1])} :
                     m \in 1..MaxDfRows}}

\* selec_top_per, in percent
Percents == {0, 70, 100}

ReduceParams ==
    [ohe_reduce : {<<"country">>, <<"country", "browser">>},
     selec_top_per : Percents,
     max_cat : 1..MaxCat]

InitReduce ==
    /\ RdIdle
    /\ df \in ReduceInputs
    /\ params \in ReduceParams
    /\ pc = "reduce_categories"
    /\ turn = 1
    /\ result = <<>>

\* lines 218-228: the turn of the loop for column ohe_reduce[turn]
ReduceCategoriesTurn ==
    /\ pc = "reduce_categories"
    /\ turn <= Len(params.ohe_reduce)
    /\ \E o \in SortedBySum(df, params.ohe_reduce[turn]) :
          df' = ReduceColumn(df, params.ohe_reduce[turn], o,
                             params.selec_top_per, params.max_cat)
    /\ turn' = turn + 1
    /\ UNCHANGED <<params, pc, result, rdVars>>

\* line 230: return df
ReduceCategoriesReturn ==
    /\ pc = "reduce_categories"
    /\ turn > Len(params.ohe_reduce)
    /\ result' = df
    /\ pc' = "returned"
    /\ UNCHANGED <<df, params, turn, rdVars>>

NextReduce ==
    \/ ReduceCategoriesTurn
    \/ ReduceCategoriesReturn

SpecReduce == InitReduce /\ [][NextReduce]_vars

\* ---------------------------------------------- claims on reduce_categories
\* the turn of the loop about to run takes the fallback of line 227: the
\* column has more than max_cat distinct values and fewer than max_cat
\* categories have a cumulative fraction <= selec_top_per
TakesFallback ==
    /\ pc = "reduce_categories"
    /\ turn <= Len(params.ohe_reduce)
    /\ Cardinality(Unique(df, params.ohe_reduce[turn])) > params.max_cat
    /\ \A o \in SortedBySum(df, params.ohe_reduce[turn]) :
          Cardinality(WithinPer(df, params.ohe_reduce[turn], o,
                                params.selec_top_per)) < params.max_cat

\* C1: a turn that takes the fallback keeps exactly the top max_cat
\* categories by summed transactionRevenue (in one of the descending orders)
\* and replaces every other value of the column by 'other category'.
C1_FallbackKeepsTopMaxCat ==
    [][TakesFallback =>
        LET c == params.ohe_reduce[turn] IN
        \E o \in SortedBySum(df, c) :
            LET top == {o[j] : j \in 1..Min(params.max_cat, Len(o))} IN
            \A k \in 1..NRows(df) :
                df'.rows[k][c] =
                    IF df.rows[k][c][1] \in top THEN df.rows[k][c]
                    ELSE V(OtherCategory)]_vars

\* C9: in the table reduce_categories returns, every column of ohe_reduce
\* has at most max_cat distinct values besides 'other category'.
C9_AtMostMaxCatCategories ==
    pc = "returned" =>
        \A k \in DOMAIN params.ohe_reduce :
            Cardinality(Categories(result, params.ohe_reduce[k]) \ {OtherCategory})
                <= params.max_cat


\* ============================================== one_hot_encode_categoricals
MaxOheRows == 2

\* the characters of the model's strings, with ord() of each
OrdOf ==
    LET alphabet == " -.0123456789ABCDEFGHIJKLMNOPQRSTUVWXYZ_abcdefghijklmnopqrstuvwxyz"
        ords == <<32, 45, 46>> \o [k \in 1..10 |-> 47 + k] \o [k \in 1..26 |-> 64 + k]
                    \o <<95>> \o [k \in 1..26 |-> 96 + k]
    IN  [ch \in {SubSeq(alphabet, k, k) : k \in 1..Len(alphabet)} |->
            ords[CHOOSE k \in 1..Len(alphabet) : SubSeq(alphabet, k, k) = ch]]

\* ord(ch)
Code(ch) == OrdOf[ch]

RECURSIVE StrLess(_, _)
\* a < b for two Python strings
StrLess(a, b) ==
    IF Len(b) = 0 THEN FALSE
    ELSE IF Len(a) = 0 THEN TRUE
    ELSE LET ca == Code(SubSeq(a, 1, 1))
             cb == Code(SubSeq(b, 1, 1))
         IN  IF ca # cb THEN ca < cb
             ELSE StrLess(SubSeq(a, 2, Len(a)), SubSeq(b, 2, Len(b)))

\* the columns that hold numbers; the others hold strings
NumericColumns ==
    {"weekday", "pageviews", "transactions", "visits", "transactionRevenue",
     "visitStartTime"}

Less(c, a, b) == IF c \in NumericColumns THEN a < b ELSE StrLess(a, b)

RECURSIVE SortCats(_, _)
\* the values S of column c in ascending order
SortCats(c, S) ==
    IF S = {} THEN <<>>
    ELSE LET least == CHOOSE a \in S : \A b \in S \ {a} : Less(c, a, b)
         IN  <<least>> \o SortCats(c, S \ {least})

\* str(v) of a weekday: an int64 column prints 0, a float64 column 0.0
Digit(v) == SubSeq("0123456789", v + 1, v + 1)

\* a column of numbers is float64 once it holds a NaN
IsFloat(t, c) == NaN \in Unique(t, c)

\* the name get_dummies gives the indicator of value v of column c:
\* prefix + '_' + str(v), with prefix='category_'
DummyName(t, c, v) ==
    "category_" \o "_" \o
        (IF c \in NumericColumns
         THEN (IF IsFloat(t, c) THEN Digit(v) \o ".0" ELSE Digit(v))
         ELSE v)

\* pd.get_dummies(data[col], prefix='category_'): one indicator column per
\* value of the column, in ascending order; a NaN cell gives a row of zeros
GetDummies(t, c) ==
    LET cats == SortCats(c, Categories(t, c))
        names == [k \in DOMAIN cats |-> DummyName(t, c, cats[k])]
    IN  Table(names, t.index,
              [r \in 1..NRows(t) |->
                  [nm \in Range(names) |->
                      IF \E k \in DOMAIN cats :
                            names[k] = nm /\ t.rows[r][c] = V(cats[k])
                      THEN V(1) ELSE V(0)]])

\* a row widened to the columns cs, NaN in those it did not have
Widen(row, cs) ==
    [c \in Range(cs) |-> IF c \in DOMAIN row THEN row[c] ELSE NaN]

\* pd.concat([a, b], sort=False): axis=0 is the default, so b's rows are put
\* under a's; the columns are a's, then those only b has
Concat(a, b) ==
    LET cs == a.columns \o SelectSeqBy(b.columns, Range(b.columns) \ Range(a.columns))
    IN  Table(cs, a.index \o b.index,
              [r \in 1..NRows(a) |-> Widen(a.rows[r], cs)] \o
              [r \in 1..NRows(b) |-> Widen(b.rows[r], cs)])

\* del data[col]
DelColumn(t, c) ==
    LET cs == SelectSeqBy(t.columns, Range(t.columns) \ {c})
    IN  Table(cs, t.index,
              [r \in 1..NRows(t) |-> [x \in Range(cs) |-> t.rows[r][x]]])

\* line 275
OHE == <<"operatingSystem", "country", "browser", "weekday">>

\* lines 277-283: one turn of the loop, on column c
EncodeColumn(t, c) == DelColumn(Concat(t, GetDummies(t, c)), c)

\* the inputs: one visitor's rows; country and browser share a value
OheValues ==
    [operatingSystem : {V("Linux"), V("Windows")},
     country : {V("A"), V(OtherCategory)},
     browser : {V("X"), V(OtherCategory)},
     weekday : {V(0), V(6)},
     fullVisitorId : {V("1")}]

OheInputs ==
    {Table(<<"fullVisitorId", "operatingSystem", "country", "browser", "weekday">>,
           RangeIndex(Len(f)), f) :
        f \in UNION {[1..m -> OheValues] : m \in 1..MaxOheRows}}

InitOhe ==
    /\ RdIdle
    /\ df \in OheInputs
    /\ params = df
    /\ pc = "one_hot_encode_categoricals"
    /\ turn = 1
    /\ result = <<>>

\* lines 276-283: the turn of the loop for column OHE[turn]
OneHotEncodeTurn ==
    /\ pc = "one_hot_encode_categoricals"
    /\ turn <= Len(OHE)
    /\ df' = EncodeColumn(df, OHE[turn])
    /\ turn' = turn + 1
    /\ UNCHANGED <<params, pc, result, rdVars>>

\* line 284: return data
OneHotEncodeReturn ==
    /\ pc = "one_hot_encode_categoricals"
    /\ turn > Len(OHE)
    /\ result' = df
    /\ pc' = "returned"
    /\ UNCHANGED <<df, params, turn, rdVars>>

NextOhe ==
    \/ OneHotEncodeTurn
    \/ OneHotEncodeReturn

SpecOhe == InitOhe /\ [][NextOhe]_vars

\* ------------------------------------ claims on one_hot_encode_categoricals
\* the number of the indicator columns `names` that are 1 in a row
Active(row, names) ==
    Cardinality({nm \in names : nm \in DOMAIN row /\ row[nm] = V(1)})

\* the indicator columns generated for column c of the input (params holds
\* the table that was passed in); a weekday is printed as int or as float
Indicators(c) ==
    {"category_" \o "_" \o
        (IF c \in NumericColumns THEN Digit(v) ELSE v) : v \in Categories(params, c)}
    \cup {"category__" \o Digit(v) \o ".0" :
             v \in IF c \in NumericColumns THEN Categories(params, c) ELSE {}}

\* C8: the table returned has the rows of the input, each without the
\* encoded columns and with exactly one indicator of every encoded column
\* active.
C8_OneIndicatorPerRow ==
    pc = "returned" =>
        /\ NRows(result) = NRows(params)
        /\ \A k \in DOMAIN OHE : ~Contains(result.columns, OHE[k])
        /\ \A r \in 1..NRows(result) : \A k \in DOMAIN OHE :
              Active(result.rows[r], Indicators(OHE[k])) = 1


\* ================================================================ aggregate
MaxAggRows == 3

\* line 97
dynamic_columns == <<"transactionRevenue", "visits", "transactions", "pageviews">>

\* the rows of t whose column c holds the cell x
RowsWith(t, c, x) == {k \in 1..NRows(t) : t.rows[k][c] = x}

RECURSIVE SumCells(_, _, _)
\* the sum of column c over the rows ks, NaN skipped
SumCells(t, c, ks) ==
    IF ks = {} THEN 0
    ELSE LET k == CHOOSE x \in ks : TRUE
         IN  Num(t.rows[k][c]) + SumCells(t, c, ks \ {k})

\* the mean of column c over the rows ks, as the fraction sum/count of the
\* cells that are not NaN; NaN when there is none
MeanCell(t, c, ks) ==
    LET some == {k \in ks : ~IsNaN(t.rows[k][c])}
    IN  IF some = {} THEN NaN
        ELSE V([num |-> SumCells(t, c, some), den |-> Cardinality(some)])

\* the groups of pivot_table: the (visitor, date_temp) pairs of the rows that
\* have both, less those whose mean is NaN in every value column (dropna)
PivotGroups(t) ==
    {g \in {<<t.rows[k]["fullVisitorId"], t.rows[k]["date_temp"]>> :
                k \in {x \in 1..NRows(t) :
                          /\ ~IsNaN(t.rows[x]["fullVisitorId"])
                          /\ ~IsNaN(t.rows[x]["date_temp"])}} :
        \E m \in DOMAIN dynamic_columns :
            ~IsNaN(MeanCell(t, dynamic_columns[m],
                            RowsWith(t, "fullVisitorId", g[1])
                                \cap RowsWith(t, "date_temp", g[2])))}

\* the name of the column of the metric p[1] in the month p[2]
PivotName(p) == p[1] \o "_" \o p[2]

\* the mean of the metric p[1] in the month p[2] of a visitor; NaN when the
\* visitor has no group in that month
PivotCell(t, groups, id, p) ==
    IF <<V(id), V(p[2])>> \in groups
    THEN MeanCell(t, p[1], RowsWith(t, "fullVisitorId", V(id))
                               \cap RowsWith(t, "date_temp", V(p[2])))
    ELSE NaN

\* the (metric, month) pairs, the metrics in order and the months in order
\* within each metric
PivotPairs(metrics, months) ==
    [k \in 1..(Len(metrics) * Len(months)) |->
        <<metrics[((k - 1) \div Len(months)) + 1], months[((k - 1) % Len(months)) + 1]>>]

\* the pairs whose column is not NaN in every row
PivotKept(t, groups, ids, pairs) ==
    SelectSeqBy(pairs, {p \in Range(pairs) :
                           \E r \in DOMAIN ids : ~IsNaN(PivotCell(t, groups, ids[r], p))})

\* lines 101-102: the names joined by '_', the visitor as a column
PivotFrame(t, groups, ids, kept) ==
    Table(<<"fullVisitorId">> \o [k \in DOMAIN kept |-> PivotName(kept[k])],
          RangeIndex(Len(ids)),
          [r \in DOMAIN ids |->
              [c \in {"fullVisitorId"} \cup {PivotName(kept[k]) : k \in DOMAIN kept} |->
                  IF c = "fullVisitorId" THEN V(ids[r])
                  ELSE PivotCell(t, groups, ids[r],
                                 CHOOSE q \in Range(kept) : PivotName(q) = c)]])

\* the pivot of the groups: one row per visitor, in ascending order
PivotWide(t, groups, ids, pairs) ==
    PivotFrame(t, groups, ids, PivotKept(t, groups, ids, pairs))

\* the groups' visitors and months
PivotOf(t, groups) ==
    PivotWide(t, groups,
              SortCats("fullVisitorId", {g[1][1] : g \in groups}),
              PivotPairs(SortCats("", Range(dynamic_columns)),
                         SortCats("date_temp", {g[2][1] : g \in groups})))

\* lines 98-102: pd.pivot_table(df, index='fullVisitorId', columns='date_temp',
\* values=dynamic_columns), the column names joined by '_', reset_index
PivotTable(t) == PivotOf(t, PivotGroups(t))

\* line 105: the columns that are not dynamic, date or date_temp
StaticColumns(t) ==
    SelectSeqBy(t.columns,
                Range(t.columns) \ (Range(dynamic_columns) \cup {"date", "date_temp"}))

\* lines 106-110: the static columns summed per visitor, one row per visitor
\* in ascending order; rows without a visitor belong to no group. The sum is
\* numeric-only: fullVisitorId, a column of strings, is not summed and comes
\* back as the group key (as_index=False)
StaticGrouped(t) ==
    LET cs == StaticColumns(t)
        ids == SortCats("fullVisitorId", Categories(t, "fullVisitorId"))
    IN  Table(cs, RangeIndex(Len(ids)),
              [r \in DOMAIN ids |->
                  [c \in Range(cs) |->
                      IF c = "fullVisitorId" THEN V(ids[r])
                      ELSE V(SumCells(t, c, RowsWith(t, "fullVisitorId", V(ids[r]))))]])

RECURSIVE MergePairs(_, _, _, _, _)
\* the (left row, right row) pairs of an inner join on column `on`, in the
\* order of the left table
MergePairs(a, b, on, l, r) ==
    IF l > NRows(a) THEN <<>>
    ELSE IF r > NRows(b) THEN MergePairs(a, b, on, l + 1, 1)
    ELSE (IF a.rows[l][on] = b.rows[r][on] THEN << <<l, r>> >> ELSE <<>>)
         \o MergePairs(a, b, on, l, r + 1)

\* a.merge(b, on=on, how="left"), the join aggregate does not take: a left
\* row without a match stays, its right columns NaN (the right keys unique)
MergeLeft(a, b, on) ==
    LET cs == a.columns \o SelectSeqBy(b.columns, Range(b.columns) \ {on})
    IN  Table(cs, RangeIndex(NRows(a)),
              [k \in 1..NRows(a) |->
                  [c \in Range(cs) |->
                      IF c \in Range(a.columns) THEN a.rows[k][c]
                      ELSE IF \E r \in 1..NRows(b) : b.rows[r][on] = a.rows[k][on]
                           THEN b.rows[CHOOSE r \in 1..NRows(b) :
                                           b.rows[r][on] = a.rows[k][on]][c]
                           ELSE NaN]])

\* a.merge(b, on=on, how="inner"), for tables that share no other column
Merge(a, b, on) ==
    LET pairs == MergePairs(a, b, on, 1, 1)
        cs == a.columns \o SelectSeqBy(b.columns, Range(b.columns) \ {on})
    IN  Table(cs, RangeIndex(Len(pairs)),
              [k \in DOMAIN pairs |->
                  [c \in Range(cs) |->
                      IF c \in Range(a.columns) THEN a.rows[pairs[k][1]][c]
                      ELSE b.rows[pairs[k][2]][c]]])

\* ----- natsorted(df.columns, key=lambda y: y.lower())
IsDigit(ch) == Code(ch) >= 48 /\ Code(ch) <= 57

\* ord(ch.lower())
LowerCode(ch) ==
    IF Code(ch) >= 65 /\ Code(ch) <= 90 THEN Code(ch) + 32 ELSE Code(ch)

RECURSIVE DigitsLen(_)
\* the length of the run of digits s starts with
DigitsLen(s) ==
    IF Len(s) = 0 \/ ~IsDigit(SubSeq(s, 1, 1)) THEN 0
    ELSE 1 + DigitsLen(SubSeq(s, 2, Len(s)))

RECURSIVE TextLen(_)
\* the length of the run of non-digits s starts with
TextLen(s) ==
    IF Len(s) = 0 \/ IsDigit(SubSeq(s, 1, 1)) THEN 0
    ELSE 1 + TextLen(SubSeq(s, 2, Len(s)))

RECURSIVE IntOf(_, _)
\* int(s) for a run of digits s, acc the value read so far
IntOf(s, acc) ==
    IF Len(s) = 0 THEN acc
    ELSE IntOf(SubSeq(s, 2, Len(s)), acc * 10 + (Code(SubSeq(s, 1, 1)) - 48))

RECURSIVE TextCmp(_, _)
\* -1, 0 or 1 as a.lower() is less than, equal to or greater than b.lower()
TextCmp(a, b) ==
    IF Len(a) = 0 /\ Len(b) = 0 THEN 0
    ELSE IF Len(a) = 0 THEN -1
    ELSE IF Len(b) = 0 THEN 1
    ELSE LET ca == LowerCode(SubSeq(a, 1, 1))
             cb == LowerCode(SubSeq(b, 1, 1))
         IN  IF ca < cb THEN -1
             ELSE IF ca > cb THEN 1
             ELSE TextCmp(SubSeq(a, 2, Len(a)), SubSeq(b, 2, Len(b)))

RECURSIVE NatCmp(_, _, _)
\* the order of the natsort keys of a and b: runs of text and of digits in
\* turn (text first), the digits compared as numbers, the shorter key first
NatCmp(a, b, text) ==
    IF Len(a) = 0 /\ Len(b) = 0 THEN 0
    ELSE IF Len(a) = 0 THEN -1
    ELSE IF Len(b) = 0 THEN 1
    ELSE IF text
    THEN LET la == TextLen(a)
             lb == TextLen(b)
             cmp == TextCmp(SubSeq(a, 1, la), SubSeq(b, 1, lb))
         IN  IF cmp # 0 THEN cmp
             ELSE NatCmp(SubSeq(a, la + 1, Len(a)), SubSeq(b, lb + 1, Len(b)), FALSE)
    ELSE LET la == DigitsLen(a)
             lb == DigitsLen(b)
             na == IntOf(SubSeq(a, 1, la), 0)
             nb == IntOf(SubSeq(b, 1, lb), 0)
         IN  IF na < nb THEN -1
             ELSE IF na > nb THEN 1
             ELSE NatCmp(SubSeq(a, la + 1, Len(a)), SubSeq(b, lb + 1, Len(b)), TRUE)

RECURSIVE NatInsert(_, _)
\* x put into the sorted list s, after the names it is not less than
NatInsert(x, s) ==
    IF s = <<>> THEN <<x>>
    ELSE IF NatCmp(x, Head(s), TRUE) < 0 THEN <<x>> \o s
    ELSE <<Head(s)>> \o NatInsert(x, Tail(s))

RECURSIVE NatSorted(_)
\* natsorted(names, key=lambda y: y.lower()): a stable sort
NatSorted(names) ==
    IF names = <<>> THEN <<>>
    ELSE NatInsert(names[Len(names)], NatSorted(SubSeq(names, 1, Len(names) - 1)))

\* df[names]: the columns `names` of t, in that order
Columns(t, names) ==
    Table(names, t.index,
          [r \in 1..NRows(t) |-> [c \in Range(names) |-> t.rows[r][c]]])

\* line 113: df[natsorted(df.columns, key=lambda y: y.lower())]
SortedColumns(t) == Columns(t, NatSorted(t.columns))

\* lines 96-113
Aggregate(t) ==
    SortedColumns(Merge(StaticGrouped(t), PivotTable(t), "fullVisitorId"))

\* the inputs: up to MaxAggRows monthly rows of two visitors, some without a
\* visitor or a month, some with no dynamic value at all or with pageviews
\* only; the rows are in a fixed order (aggregate groups and sorts them)
AggIds == <<V("1"), V("2"), NaN>>
AggMonths == <<V("8_2016"), V("12_2017"), NaN>>
AggKinds == <<"all", "pageviews", "none">>

AggRow(x) ==
    [fullVisitorId |-> AggIds[x[1]],
     date_temp |-> AggMonths[x[2]],
     date |-> IF x[2] = 1 THEN V("2016-08-01")
              ELSE IF x[2] = 2 THEN V("2017-12-01") ELSE NaN,
     pageviews |-> IF AggKinds[x[3]] = "none" THEN NaN ELSE V(1),
     visits |-> IF AggKinds[x[3]] = "all" THEN V(1) ELSE NaN,
     transactions |-> IF AggKinds[x[3]] = "all" THEN V(0) ELSE NaN,
     transactionRevenue |-> IF AggKinds[x[3]] = "all" THEN V(5) ELSE NaN,
     visitStartTime |-> V(1)]

TripleLeq(x, y) ==
    \/ x[1] < y[1]
    \/ x[1] = y[1] /\ x[2] < y[2]
    \/ x[1] = y[1] /\ x[2] = y[2] /\ x[3] <= y[3]

AggInputs ==
    {Table(<<"fullVisitorId", "date_temp", "date", "pageviews", "transactions",
             "visits", "transactionRevenue", "visitStartTime">>,
           RangeIndex(Len(f)), [k \in DOMAIN f |-> AggRow(f[k])]) :
        f \in UNION {{g \in [1..m -> (DOMAIN AggIds) \X (DOMAIN AggMonths)
                                        \X (DOMAIN AggKinds)] :
                        \A k \in 1..(m - 1) : TripleLeq(g[k], g[k + 1])} :
                     m \in 1..MaxAggRows}}

InitAggregate ==
    /\ RdIdle
    /\ df \in AggInputs
    /\ params = [wide |-> <<>>, static_grouped |-> <<>>]
    /\ pc = "aggregate"
    /\ turn = 0
    /\ result = <<>>

\* lines 96-110: the dynamic pivot and the static per-visitor sum
AggregateGroup ==
    /\ pc = "aggregate"
    /\ params' = [wide |-> PivotTable(df), static_grouped |-> StaticGrouped(df)]
    /\ pc' = "aggregate: merge"
    /\ UNCHANGED <<df, turn, result, rdVars>>

\* lines 111-113: the inner join, the columns sorted, return
AggregateReturn ==
    /\ pc = "aggregate: merge"
    /\ result' = Aggregate(df)
    /\ pc' = "returned"
    /\ UNCHANGED <<df, params, turn, rdVars>>

NextAggregate ==
    \/ AggregateGroup
    \/ AggregateReturn

SpecAggregate == InitAggregate /\ [][NextAggregate]_vars

\* ------------------------------------------------------ claims on aggregate
\* the visitors of the rows of a table
Visitors(t) == {t.rows[k]["fullVisitorId"] : k \in 1..NRows(t)}

\* no two rows of the table have the same visitor
OneRowPerVisitor(t) ==
    \A j, k \in 1..NRows(t) :
        t.rows[j]["fullVisitorId"] = t.rows[k]["fullVisitorId"] => j = k

\* C10: the table aggregate returns has exactly one row for each visitor
\* that is in both the dynamic pivot and the static per-visitor sum, and no
\* row for any other visitor.
C10_OneRowPerCommonVisitor ==
    pc = "returned" =>
        /\ Visitors(result) = Visitors(params.wide) \cap Visitors(params.static_grouped)
        /\ OneRowPerVisitor(result)

\* a visitor with two monthly rows came back once, and a visitor that is in
\* the static sum but not in the pivot came back without a row
C10_Witness ==
    /\ pc = "returned"
    /\ \E v \in Visitors(result) : Cardinality(RowsWith(df, "fullVisitorId", v)) >= 2
    /\ \E v \in Visitors(params.static_grouped) : v \notin Visitors(result)


\* ================================================== group_data, split_data
MaxSessions == 2

\* pd.datetime.strptime(s, '%Y-%m-%d') of a YYYY-MM-DD text
ParseDate(s) ==
    [year |-> IntOf(SubSeq(s, 1, 4), 0),
     month |-> IntOf(SubSeq(s, 6, 7), 0),
     day |-> IntOf(SubSeq(s, 9, 10), 0)]

\* the days from 1970-01-01 to the date d
DaysFromEpoch(d) ==
    LET y == IF d.month <= 2 THEN d.year - 1 ELSE d.year
        era == y \div 400
        yoe == y - era * 400
        mp == IF d.month > 2 THEN d.month - 3 ELSE d.month + 9
        doy == ((153 * mp + 2) \div 5) + d.day - 1
        doe == yoe * 365 + (yoe \div 4) - (yoe \div 100) + doy
    IN  era * 146097 + doe - 719468

\* d.weekday(): Monday is 0; 1970-01-01 was a Thursday
Weekday(d) == (DaysFromEpoch(d) + 3) % 7

\* a <= b for two dates
DateLeq(a, b) ==
    \/ a.year < b.year
    \/ a.year = b.year /\ a.month < b.month
    \/ a.year = b.year /\ a.month = b.month /\ a.day <= b.day

RECURSIVE ToStr(_)
\* str(m) for an int m >= 0
ToStr(m) == IF m < 10 THEN Digit(m) ELSE ToStr(m \div 10) \o Digit(m % 10)

\* lines 135-140: agg_date of a datetime: strptime fails on str(s), which has
\* the time of day after the date, and the except branch formats s itself
AggDate(d) == ToStr(d.month) \o "_" \o ToStr(d.year)

\* the table with column c set row by row to f[row]
WithColumn(t, c, f) ==
    LET cs == IF Contains(t.columns, c) THEN t.columns ELSE t.columns \o <<c>>
    IN  Table(cs, t.index,
              [k \in 1..NRows(t) |->
                  [x \in Range(cs) |-> IF x = c THEN f[k] ELSE t.rows[k][x]]])

\* lines 119-120: x.value_counts().index[0], a most frequent value of column
\* c in the rows ks (value_counts leaves the order of equal counts open)
MostFrequent(t, c, ks) ==
    LET count(v) == Cardinality({k \in ks : t.rows[k][c] = v})
        values == {t.rows[k][c] : k \in ks} \ {NaN}
    IN  {v \in values : \A w \in values : count(w) <= count(v)}

\* "first": the first cell of column c in the rows ks that is not NaN
First(t, c, ks) ==
    LET some == {k \in ks : ~IsNaN(t.rows[k][c])}
    IN  IF some = {} THEN NaN
        ELSE t.rows[CHOOSE k \in some : \A j \in some : k <= j][c]

\* the (fullVisitorId, date_temp) pairs a < b, as groupby sorts its keys
KeyLess(a, b) ==
    \/ StrLess(a[1], b[1])
    \/ a[1] = b[1] /\ StrLess(a[2], b[2])

RECURSIVE SortKeys(_)
SortKeys(S) ==
    IF S = {} THEN <<>>
    ELSE LET least == CHOOSE a \in S : \A b \in S \ {a} : KeyLess(a, b)
         IN  <<least>> \o SortKeys(S \ {least})

\* lines 122-133: the columns of agg, in its order
AggColumns ==
    <<"operatingSystem", "country", "browser", "weekday", "pageviews",
      "transactions", "visits", "transactionRevenue", "visitStartTime", "date">>

\* line 142: df["date_temp"] = df["date"].apply(agg_date)
WithDateTemp(t) ==
    WithColumn(t, "date_temp",
               [k \in 1..NRows(t) |-> V(AggDate(t.rows[k]["date"][1]))])

\* the groups of line 145, in the order of their keys
GroupKeys(t) ==
    SortKeys({<<t.rows[k]["fullVisitorId"][1], t.rows[k]["date_temp"][1]>> :
                 k \in 1..NRows(t)})

\* the rows of the group of a key
Members(t, key) ==
    RowsWith(t, "fullVisitorId", V(key[1])) \cap RowsWith(t, "date_temp", V(key[2]))

\* the columns agg gives to most_frequent
FrequentColumns == {"operatingSystem", "country", "browser", "weekday"}

\* the choices group_data has for its most frequent values on the table t
\* (date_temp set): for every such column, one of the most frequent values
\* of each group
MostFrequentChoices(t) ==
    LET keys == GroupKeys(t)
    IN  {mf \in [operatingSystem : [DOMAIN keys -> Unique(t, "operatingSystem")],
                 country : [DOMAIN keys -> Unique(t, "country")],
                 browser : [DOMAIN keys -> Unique(t, "browser")],
                 weekday : [DOMAIN keys -> Unique(t, "weekday")]] :
            \A c \in FrequentColumns : \A g \in DOMAIN keys :
                mf[c][g] \in MostFrequent(t, c, Members(t, keys[g]))}

\* lines 116-145: group_data, with the choice mf of most frequent values
GroupData(t0, mf) ==
    LET t == WithDateTemp(t0)
        keys == GroupKeys(t)
        cs == <<"fullVisitorId", "date_temp">> \o AggColumns
    IN  Table(cs, RangeIndex(Len(keys)),
              [g \in DOMAIN keys |->
                  [c \in Range(cs) |->
                      IF c = "fullVisitorId" THEN V(keys[g][1])
                      ELSE IF c = "date_temp" THEN V(keys[g][2])
                      ELSE IF c \in FrequentColumns THEN mf[c][g]
                      ELSE IF c \in {"visitStartTime", "date"}
                           THEN First(t, c, Members(t, keys[g]))
                      ELSE V(SumCells(t, c, Members(t, keys[g])))]])


\* t[mask]: the rows ks of t, in order, under their index labels
SelectRows(t, ks) ==
    LET kept == SelectSeqBy([k \in 1..NRows(t) |-> k], ks)
    IN  Table(t.columns, [k \in DOMAIN kept |-> t.index[kept[k]]],
              [k \in DOMAIN kept |-> t.rows[kept[k]]])

\* (t["date"] >= dates[0]) & (t["date"] <= dates[1]): the rows whose date is
\* in the window; a row without a date is in no window
InWindow(t, dates) ==
    {k \in 1..NRows(t) :
        /\ ~IsNaN(t.rows[k]["date"])
        /\ DateLeq(ParseDate(dates[1]), t.rows[k]["date"][1])
        /\ DateLeq(t.rows[k]["date"][1], ParseDate(dates[2]))}

\* lines 153-158: the two tables put together, the missing transactions and
\* revenues set to 0, the dates parsed, the weekday added
Prepare(train, test) ==
    LET both == Concat(train, test)
        filled == [both EXCEPT !.rows =
                     [k \in DOMAIN @ |->
                         [@[k] EXCEPT
                             !["transactions"] = IF IsNaN(@) THEN V(0) ELSE @,
                             !["transactionRevenue"] = IF IsNaN(@) THEN V(0) ELSE @,
                             !["date"] = V(ParseDate(@[1]))]]]
    IN  WithColumn(filled, "weekday",
                   [k \in 1..NRows(filled) |-> V(Weekday(filled.rows[k]["date"][1]))])

\* line 163
OHE_reduce == <<"operatingSystem", "country", "browser">>

RECURSIVE EncodeColumns(_, _)
\* lines 276-283: the first k turns of the loop of one_hot_encode_categoricals
EncodeColumns(t, k) ==
    IF k = 0 THEN t ELSE EncodeColumn(EncodeColumns(t, k - 1), OHE[k])

\* lines 276-284: one_hot_encode_categoricals
OneHotEncodeCategoricals(t) == EncodeColumns(t, Len(OHE))

\* np.log(x), left uncomputed
Log(x) == [log |-> x]

\* the position of the label l in the index, 0 when it is not there
Position(index, l) ==
    IF \E k \in DOMAIN index : index[k] = l
    THEN CHOOSE k \in DOMAIN index : index[k] = l
    ELSE 0

\* line 170: the revenue and visitor of the rows of the target window, under
\* their index labels
RevenueRows(merged, dates) ==
    Columns(SelectRows(merged, InWindow(merged, dates)),
            <<"transactionRevenue", "fullVisitorId">>)

\* y.groupby(['fullVisitorId'], as_index=False)['transactionRevenue'].sum():
\* a new table, one row per visitor in ascending order, labelled 0, 1, ...
VisitorSums(y, ids) ==
    Table(<<"fullVisitorId", "transactionRevenue">>, RangeIndex(Len(ids)),
          [g \in DOMAIN ids |->
              [fullVisitorId |-> V(ids[g]),
               transactionRevenue |->
                   V(SumCells(y, "transactionRevenue",
                              RowsWith(y, "fullVisitorId", V(ids[g]))))]])

\* lines 171-172: y['target'] = np.log(sums['transactionRevenue'] + 1); the
\* assignment matches the rows of y and of sums by index label, and a label
\* of y that sums does not have gets NaN
WithTarget(y, sums) ==
    WithColumn(y, "target",
               [k \in 1..NRows(y) |->
                   IF Position(sums.index, y.index[k]) = 0 THEN NaN
                   ELSE V(Log(sums.rows[Position(sums.index, y.index[k])]
                                  ["transactionRevenue"][1] + 1))])

\* lines 171-173 on the rows y
TargetsOf(y) ==
    Columns(WithTarget(y, VisitorSums(y, SortCats("fullVisitorId",
                                                  Categories(y, "fullVisitorId")))),
            <<"fullVisitorId", "target">>)

\* lines 170-173: y_train
Targets(merged, dates) == TargetsOf(RevenueRows(merged, dates))

RECURSIVE Replace(_, _, _)
\* s.replace(old, new)
Replace(s, old, new) ==
    IF Len(s) < Len(old) THEN s
    ELSE IF SubSeq(s, 1, Len(old)) = old
         THEN new \o Replace(SubSeq(s, Len(old) + 1, Len(s)), old, new)
         ELSE SubSeq(s, 1, 1) \o Replace(SubSeq(s, 2, Len(s)), old, new)

\* t.columns = [x.replace(old, new) for x in t.columns]
ReplaceInColumns(t, old, new) ==
    LET names == [k \in DOMAIN t.columns |-> Replace(t.columns[k], old, new)]
    IN  Table(names, t.index,
              [r \in 1..NRows(t) |->
                  [c \in Range(names) |->
                      t.rows[r][t.columns[CHOOSE k \in DOMAIN names : names[k] = c]]]])

\* lines 186-188: the names x_train and x_test share; they come out of a
\* Python set, whose order is not modelled: they are listed as x_train has them
Names(x_train, x_test) ==
    SelectSeqBy(x_train.columns, Range(x_test.columns))

\* the targets as they were before the merge
UnmergedTargets(merged, y_train) == y_train

\* line 193: y_train = merged[names_y]
TrainTargets(merged, y_train) == Columns(merged, y_train.columns)

\* line 192 and the first table of line 197: x_train = merged[names_x][names]
TrainFeatures(merged, x_train, names) == Columns(Columns(merged, x_train.columns), names)


\* the inputs: up to MaxSessions sessions of two visitors, each visitor in a
\* country of its own, on the first day of four months, with a revenue or
\* without; the first half of the sessions is train, the rest test
SessionVisitors == <<"1", "2">>
SessionCountries == <<"A", "B">>
SessionDates == <<"2016-08-01", "2017-10-01", "2017-12-01", "2018-01-01">>
SessionRevenues == <<NaN, V(5)>>

SessionRow(x) ==
    [date |-> V(SessionDates[x[2]]),
     fullVisitorId |-> V(SessionVisitors[x[1]]),
     operatingSystem |-> V("Linux"),
     country |-> V(SessionCountries[x[1]]),
     browser |-> V("X"),
     pageviews |-> V(1),
     transactions |-> IF IsNaN(SessionRevenues[x[3]]) THEN NaN ELSE V(1),
     visits |-> V(1),
     transactionRevenue |-> SessionRevenues[x[3]],
     visitStartTime |-> V(1)]

SplitInputs ==
    {[train |-> Table(cols, RangeIndex((Len(f) + 1) \div 2),
                      [k \in 1..((Len(f) + 1) \div 2) |-> SessionRow(f[k])]),
      test |-> Table(cols, RangeIndex(Len(f) \div 2),
                     [k \in 1..(Len(f) \div 2) |->
                         SessionRow(f[k + ((Len(f) + 1) \div 2)])])] :
        f \in UNION {{g \in [1..m -> (DOMAIN SessionVisitors) \X (DOMAIN SessionDates)
                                        \X (DOMAIN SessionRevenues)] :
                        \A k \in 1..(m - 1) : TripleLeq(g[k], g[k + 1])} :
                     m \in 1..MaxSessions}}

\* line 148: the default windows, and windows a year earlier for the target
SplitWindows ==
    {[x_train_dates |-> <<"2016-08-01", "2017-11-30">>,
      y_test_dates |-> <<"2017-12-01", "2018-01-31">>,
      x_test_dates |-> <<"2017-08-01", "2018-11-30">>],
     [x_train_dates |-> <<"2016-08-01", "2016-12-31">>,
      y_test_dates |-> <<"2017-08-01", "2017-12-31">>,
      x_test_dates |-> <<"2017-08-01", "2018-01-31">>]}

\* max_cat: the default, and one that makes reduce_categories act
SplitMaxCats == {1, 10}

NoTables == [merged |-> <<>>, x_train |-> <<>>, y_train |-> <<>>, x_test |-> <<>>]

\* the calls whose x_train and x_test windows both hold a session
InitSplit ==
    /\ RdIdle
    /\ \E input \in SplitInputs, w \in SplitWindows, mc \in SplitMaxCats :
          /\ InWindow(Prepare(input.train, input.test), w.x_train_dates) # {}
          /\ InWindow(Prepare(input.train, input.test), w.x_test_dates) # {}
          /\ params = [train |-> input.train, test |-> input.test,
                       x_train_dates |-> w.x_train_dates,
                       y_test_dates |-> w.y_test_dates,
                       x_test_dates |-> w.x_test_dates,
                       selec_top_per |-> 50, max_cat |-> mc]
    /\ df = NoTables
    /\ pc = "split_data"
    /\ turn = 0
    /\ result = <<>>

\* lines 153-161
SplitDataGroup ==
    /\ pc = "split_data"
    /\ \E mf \in MostFrequentChoices(WithDateTemp(Prepare(params.train, params.test))) :
          df' = [df EXCEPT !.merged = GroupData(Prepare(params.train, params.test), mf)]
    /\ pc' = "split_data: reduce_categories"
    /\ turn' = 1
    /\ UNCHANGED <<params, result, rdVars>>

\* line 164: a turn of the loop of reduce_categories, for OHE_reduce[turn]
SplitDataReduce ==
    /\ pc = "split_data: reduce_categories"
    /\ \E o \in SortedBySum(df.merged, OHE_reduce[turn]) :
          df' = [df EXCEPT !.merged = ReduceColumn(@, OHE_reduce[turn], o,
                                                  params.selec_top_per, params.max_cat)]
    /\ IF turn < Len(OHE_reduce)
       THEN turn' = turn + 1 /\ pc' = pc
       ELSE turn' = 0 /\ pc' = "split_data: one_hot_encode_categoricals"
    /\ UNCHANGED <<params, result, rdVars>>

\* line 166
SplitDataEncode ==
    /\ pc = "split_data: one_hot_encode_categoricals"
    /\ df' = [df EXCEPT !.merged = OneHotEncodeCategoricals(@)]
    /\ pc' = "split_data: split"
    /\ UNCHANGED <<params, turn, result, rdVars>>

\* lines 169-174
SplitDataSlice ==
    /\ pc = "split_data: split"
    /\ df' = [df EXCEPT
                !.x_train = SelectRows(df.merged, InWindow(df.merged, params.x_train_dates)),
                !.y_train = Targets(df.merged, params.y_test_dates),
                !.x_test = SelectRows(df.merged, InWindow(df.merged, params.x_test_dates))]
    /\ pc' = "split_data: aggregate"
    /\ UNCHANGED <<params, turn, result, rdVars>>

\* lines 177-183
SplitDataAggregate ==
    /\ pc = "split_data: aggregate"
    /\ df' = [df EXCEPT
                !.x_train = ReplaceInColumns(ReplaceInColumns(Aggregate(@), "2016", "1"),
                                             "2017", "2"),
                !.x_test = ReplaceInColumns(ReplaceInColumns(Aggregate(@), "2017", "1"),
                                            "2018", "2")]
    /\ pc' = "split_data: merge"
    /\ UNCHANGED <<params, turn, result, rdVars>>

\* lines 186-197; df keeps the tables as they were before the merge
SplitDataReturn ==
    /\ pc = "split_data: merge"
    /\ LET names == Names(df.x_train, df.x_test)
           merged == Merge(df.x_train, df.y_train, "fullVisitorId")
       IN  result' = [x_train |-> TrainFeatures(merged, df.x_train, names),
                      y_train |-> TrainTargets(merged, df.y_train),
                      x_test |-> Columns(df.x_test, names)]
    /\ pc' = "returned"
    /\ UNCHANGED <<df, params, turn, rdVars>>

NextSplit ==
    \/ SplitDataGroup
    \/ SplitDataReduce
    \/ SplitDataEncode
    \/ SplitDataSlice
    \/ SplitDataAggregate
    \/ SplitDataReturn

SpecSplit == InitSplit /\ [][NextSplit]_vars

\* ----------------------------------------------------- claims on split_data
\* C2: after split_data returns, x_train and y_train hold the same set of
\* visitors, and x_train and x_test the same set of column names.
C2_SameVisitorsSameColumns ==
    pc = "returned" =>
        /\ Visitors(result.x_train) = Visitors(result.y_train)
        /\ Range(result.x_train.columns) = Range(result.x_test.columns)


\* split_data returned after the merge took the visitors that x_train and
\* y_train did not share, and the intersection of the names took a column
\* from x_train and one from x_test
C2_Witness ==
    /\ pc = "returned"
    /\ Visitors(df.x_train) # Visitors(df.y_train)
    /\ \E c \in Range(df.x_train.columns) : c \notin Range(result.x_train.columns)
    /\ \E c \in Range(df.x_test.columns) : c \notin Range(result.x_test.columns)

\* the revenue of a visitor summed over the grouped rows of the target window
WindowRevenue(id) ==
    SumCells(df.merged, "transactionRevenue",
             RowsWith(df.merged, "fullVisitorId", id)
                 \cap InWindow(df.merged, params.y_test_dates))

\* C3: the y_train that split_data returns has one row per visitor, and the
\* row's target is log(1 + the sum of that visitor's own transactionRevenue
\* over the grouped rows of the target window), never missing.
C3_TargetIsOwnWindowRevenue ==
    pc = "returned" =>
        /\ OneRowPerVisitor(result.y_train)
        /\ \A r \in 1..NRows(result.y_train) :
              result.y_train.rows[r]["target"] =
                  V(Log(WindowRevenue(result.y_train.rows[r]["fullVisitorId"]) + 1))


\* ============================================= add_mean_time_between_visits
MaxVisitors == 2

RECURSIVE Gcd(_, _)
Gcd(a, b) == IF b = 0 THEN a ELSE Gcd(b, a % b)

\* The numbers of this function are floats; the model keeps them as
\* fractions in lowest terms with a positive denominator, and Inf for the
\* quotient of a positive number by zero.
Inf == [num |-> 1, den |-> 0]

Rat(a, b) ==
    LET g == Gcd(IF a < 0 THEN -a ELSE a, b)
    IN  [num |-> a \div g, den |-> b \div g]

\* x > y
RatGt(x, y) == x.num * y.den > y.num * x.den

\* x - y
RatSub(x, y) == Rat(x.num * y.den - y.num * x.den, x.den * y.den)

\* x * y
RatMul(x, y) == Rat(x.num * y.num, x.den * y.den)

\* x / y for x >= 0 and y >= 0, as float division gives it: 0/0 is NaN and
\* x/0 is inf
RatDiv(x, y) ==
    IF y.num = 0 THEN (IF x.num = 0 THEN NaN ELSE V(Inf))
    ELSE V(Rat(x.num * y.den, x.den * y.num))

One == Rat(1, 1)
Zero == Rat(0, 1)

\* df["totalVisits_mean"] >= 1, the mask the function does not use
AtLeastOne(t) ==
    [k \in 1..NRows(t) |->
        /\ ~IsNaN(t.rows[k]["totalVisits_mean"])
        /\ ~RatGt(One, t.rows[k]["totalVisits_mean"][1])]

\* line 426: safe = df["totalVisits_mean"] > 1, row by row; NaN > 1 is False
Safe(t) ==
    [k \in 1..NRows(t) |->
        /\ ~IsNaN(t.rows[k]["totalVisits_mean"])
        /\ RatGt(t.rows[k]["totalVisits_mean"][1], One)]

\* lines 428-429: the quotients of the safe rows, in the order of the rows;
\* a NaN number of days gives NaN
Quotients(t, safe) ==
    LET rows == SelectSeqBy([k \in 1..NRows(t) |-> k], {k \in 1..NRows(t) : safe[k]})
    IN  [j \in DOMAIN rows |->
            IF IsNaN(t.rows[rows[j]]["days_first_to_last_visit"]) THEN NaN
            ELSE RatDiv(t.rows[rows[j]]["days_first_to_last_visit"][1],
                        RatSub(t.rows[rows[j]]["totalVisits_mean"][1], One))]

\* line 428: intervisit_time[safe] = values: the j-th True position of the
\* mask takes the j-th value
Scatter(array, safe, values) ==
    [k \in DOMAIN array |->
        IF safe[k]
        THEN values[Cardinality({x \in 1..k : safe[x]})]
        ELSE array[k]]

\* the inputs: up to MaxVisitors customers with a mean number of visits, a
\* number of days and one more column; the index is 0, 1, .. or a label
\* shared by all rows
VisitMeans == {NaN, V(Zero), V(One), V(Rat(3, 2)), V(Rat(2, 1)), V(Rat(3, 1))}
VisitDays == {NaN, V(Zero), V(Rat(30, 1)), V(Rat(31, 1))}

MeanInputs ==
    {Table(<<"fullVisitorId", "totalVisits_mean", "days_first_to_last_visit">>, ix, f) :
        f \in UNION {[1..m -> [fullVisitorId : {V("1")},
                               totalVisits_mean : VisitMeans,
                               days_first_to_last_visit : VisitDays]] :
                     m \in 1..MaxVisitors},
        ix \in {RangeIndex(m) : m \in 1..MaxVisitors}
                  \cup {[k \in 1..m |-> 7] : m \in 1..MaxVisitors}}

InitMean ==
    /\ RdIdle
    /\ params \in {t \in MeanInputs : Len(t.index) = NRows(t)}
    /\ df = [df |-> params, safe |-> <<>>, intervisit_time |-> <<>>]
    /\ pc = "add_mean_time_between_visits"
    /\ turn = 0
    /\ result = <<>>

\* lines 426-427
MeanTimeMask ==
    /\ pc = "add_mean_time_between_visits"
    /\ df' = [df EXCEPT !.safe = Safe(df.df), !.intervisit_time = [k \in 1..NRows(df.df) |-> V(Zero)]]
    /\ pc' = "add_mean_time_between_visits: fill"
    /\ UNCHANGED <<params, turn, result, rdVars>>

\* lines 428-429
MeanTimeFill ==
    /\ pc = "add_mean_time_between_visits: fill"
    /\ df' = [df EXCEPT !.intervisit_time = Scatter(@, df.safe, Quotients(df.df, df.safe))]
    /\ pc' = "add_mean_time_between_visits: return"
    /\ UNCHANGED <<params, turn, result, rdVars>>

\* lines 430-431
MeanTimeReturn ==
    /\ pc = "add_mean_time_between_visits: return"
    /\ df' = [df EXCEPT !.df = WithColumn(@, "mean_intervisit_time", df.intervisit_time)]
    /\ result' = df'.df
    /\ pc' = "returned"
    /\ UNCHANGED <<params, turn, rdVars>>

NextMean ==
    \/ MeanTimeMask
    \/ MeanTimeFill
    \/ MeanTimeReturn

SpecMean == InitMean /\ [][NextMean]_vars

\* ------------------------------------ claims on add_mean_time_between_visits
\* the row r of the table passed in has both numbers
HasNumbers(r) ==
    /\ ~IsNaN(params.rows[r]["totalVisits_mean"])
    /\ ~IsNaN(params.rows[r]["days_first_to_last_visit"])

\* C11: in the table returned, mean_intervisit_time is 0 in every row whose
\* totalVisits_mean is <= 1 and is days_first_to_last_visit /
\* (totalVisits_mean - 1), a finite number, in every row whose
\* totalVisits_mean is > 1; the index and every other column are as passed in.
C11_MeanIntervisitTime ==
    pc = "returned" =>
        /\ result.index = params.index
        /\ result.columns = params.columns \o <<"mean_intervisit_time">>
        /\ \A r \in 1..NRows(params) :
              /\ \A c \in Range(params.columns) : result.rows[r][c] = params.rows[r][c]
              /\ HasNumbers(r) =>
                    LET visits == params.rows[r]["totalVisits_mean"][1]
                        days == params.rows[r]["days_first_to_last_visit"][1]
                        mean == result.rows[r]["mean_intervisit_time"]
                    IN  IF RatGt(visits, One)
                        THEN /\ ~IsNaN(mean)
                             /\ mean[1].den > 0
                             /\ RatMul(mean[1], RatSub(visits, One)) = days
                        ELSE mean = V(Zero)

\* the spec's two examples in one table, under labels that are not the
\* positions: 3 visits over 30 days came back as 15, 1 visit as 0
C11_Witness ==
    /\ pc = "returned"
    /\ params.index = <<7, 7>>
    /\ params.rows[1]["totalVisits_mean"] = V(One)
    /\ params.rows[1]["days_first_to_last_visit"] = V(Rat(30, 1))
    /\ result.rows[1]["mean_intervisit_time"] = V(Zero)
    /\ params.rows[2]["totalVisits_mean"] = V(Rat(3, 1))
    /\ params.rows[2]["days_first_to_last_visit"] = V(Rat(30, 1))
    /\ result.rows[2]["mean_intervisit_time"] = V(Rat(15, 1))

====
